---- MODULE Spec2Model ----
(***************************************************************************)
(* Model of the AgriBot backend (src/backend/main.py): the chat pipeline   *)
(* (validate, detect, translate, complete, persist, translate back), the   *)
(* completion client's classification of remote results, and the process-  *)
(* wide conversation history with its clear and history endpoints.         *)
(***************************************************************************)
EXTENDS Integers, Sequences, FiniteSets, TLC

VARIABLES
    OPENROUTER_API_KEY,     \* the credential read from the environment at import
    conversation_history,   \* the global list of {"user", "bot"} exchanges
    n_chats,                \* chat requests handled so far (bounds the exploration)
    last,                   \* what the last handled request did and returned
    client,                 \* a call of the completion client on its own
    chat_pc,                \* position of the chat coroutine on the event loop
    chat_loc,               \* its locals while it is in flight
    hist_pc,                \* position of a get_history call in a worker thread
    hist_loc                \* its locals while it is in flight

vars == <<OPENROUTER_API_KEY, conversation_history, n_chats, last, client,
          chat_pc, chat_loc, hist_pc, hist_loc>>

(***************************************************************************)
(* Bounds of the exploration and the program's constants.                  *)
(***************************************************************************)
MaxChats == 2               \* chat requests handled in one behaviour
MaxConcurrentChats == 1     \* chat requests in one behaviour of the concurrent server

MAX_HISTORY == 100          \* len(conversation_history) > 100
MAX_QUERY_LEN == 2000       \* len(user_text) > 2000
CONTEXT_TURNS == 5          \* conversation_history[-5:]

(***************************************************************************)
(* Python values.  None is a sentinel; a str is a record giving its        *)
(* leading whitespace, its text from the first to the last non-whitespace  *)
(* character (body, n characters long, written in language lang), and its  *)
(* trailing whitespace.  A string of whitespace only has n = 0.            *)
(***************************************************************************)
NoneVal == "<None>"

Truthy(s) == s # NoneVal /\ s # ""

MkStr(lead, body, lang, n, trail) ==
    [lead |-> lead, body |-> body, lang |-> lang, n |-> n, trail |-> trail]

Lit(s) == MkStr(0, s, "en", Len(s), 0)

StrLen(s) == s.lead + s.n + s.trail

strip(s) == [s EXCEPT !.lead = 0, !.trail = 0]

Langs == {"en", "hi"}

(***************************************************************************)
(* detect_language: the library's answer, or "en" when it raises.          *)
(***************************************************************************)
DetectOutcomes == Langs \cup {"LangDetectException", "Exception"}

detect_language(text, outcome) ==
    IF outcome \in {"LangDetectException", "Exception"} THEN "en" ELSE outcome

(***************************************************************************)
(* translate_text: the identity when source = target, the provider's       *)
(* translation when it answers, the input itself when it raises.           *)
(***************************************************************************)
TranslateOutcomes == {"translated", "raised"}

GoogleTranslate(text, target_lang) ==
    [text EXCEPT !.lang = target_lang, !.body = "tr:" \o text.body]

translate_text(text, source_lang, target_lang, outcome) ==
    IF source_lang = target_lang THEN text
    ELSE IF outcome = "translated" THEN GoogleTranslate(text, target_lang)
    ELSE text

\* The calls translate_text makes to the translation provider.
translate_calls(source_lang, target_lang) ==
    IF source_lang = target_lang THEN <<>>
    ELSE <<[fn |-> "GoogleTranslator.translate",
            source |-> source_lang, target |-> target_lang]>>

(***************************************************************************)
(* JSON values of a response body, tagged by their Python type.            *)
(***************************************************************************)
JNull == [t |-> "null"]
JText(s) == [t |-> "str", s |-> s]            \* a str that is a reply text
JMsg(words) == [t |-> "str", words |-> words] \* a str that is an error message
JList(items) == [t |-> "list", items |-> items]
JDict(fields) == [t |-> "dict", fields |-> fields]

Body(json) == [parses |-> TRUE, json |-> json]
NotJson == [parses |-> FALSE]

\* An error message is a sequence of words; w is the word in lower case and
\* upper tells whether the message writes it with capitals.
Word(w, upper) == [w |-> w, upper |-> upper]

lower(words) == [i \in 1..Len(words) |-> Word(words[i].w, FALSE)]

Contains(words, w) == \E i \in 1..Len(words) : words[i] = Word(w, FALSE)

(***************************************************************************)
(* The outcome tuple (response_text, is_error, error_type) of              *)
(* get_openrouter_response, with the payloads it posted on the way.        *)
(***************************************************************************)
Outcome(text, is_error, error_type) ==
    [text |-> text, is_error |-> is_error, error_type |-> error_type]

ConfigurationError ==
    Outcome(Lit("I apologize, but the AI service is currently unavailable. Please contact the administrator to configure the API key."),
            TRUE, "configuration_error")

UnexpectedFormat ==
    Outcome(Lit("I received an unexpected response format. Please try again."),
            TRUE, "unexpected_format")

InsufficientCredits ==
    Outcome(Lit("I apologize, but the AI service credits have been exhausted. Please contact the administrator to add more credits to OpenRouter."),
            TRUE, "insufficient_credits")

BadRequest ==
    Outcome(Lit("I encountered an issue processing your request. Please try rephrasing your question."),
            TRUE, "bad_request")

AuthenticationError ==
    Outcome(Lit("Authentication failed. The API key may be invalid. Please contact the administrator."),
            TRUE, "authentication_error")

PaymentRequired ==
    Outcome(Lit("The AI service requires payment. Please add credits to your OpenRouter account."),
            TRUE, "payment_required")

RateLimit ==
    Outcome(Lit("Too many requests. Please wait a moment and try again."),
            TRUE, "rate_limit")

ServerError ==
    Outcome(Lit("The AI service is temporarily unavailable. Please try again in a few moments."),
            TRUE, "server_error")

UnknownError(status_code) ==
    Outcome(Lit("An unexpected error occurred (Status: " \o ToString(status_code) \o "). Please try again."),
            TRUE, "unknown_error")

TimeoutError ==
    Outcome(Lit("The request took too long to process. Please try again."),
            TRUE, "timeout")

ConnectionError ==
    Outcome(Lit("Unable to connect to the AI service. Please check your internet connection."),
            TRUE, "connection_error")

UnexpectedError ==
    Outcome(Lit("An unexpected error occurred. Please try again later."),
            TRUE, "unexpected_error")

(***************************************************************************)
(* The 200 branch: result = response.json(); the reply is                  *)
(* result["choices"][0]["message"]["content"].strip() when "choices" is in *)
(* result and non-empty.  Whatever raises on the way (a body that is not   *)
(* JSON, len() of null, a missing key, .strip() of null) is caught by      *)
(* `except Exception`.                                                     *)
(***************************************************************************)
ExtractContent(choice) ==
    IF choice.t # "dict" \/ "message" \notin DOMAIN choice.fields
    THEN UnexpectedError
    ELSE LET message == choice.fields.message IN
         IF message.t # "dict" \/ "content" \notin DOMAIN message.fields
         THEN UnexpectedError
         ELSE LET content == message.fields.content IN
              IF content.t # "str" THEN UnexpectedError
              ELSE Outcome(strip(content.s), FALSE, NoneVal)

HandleSuccessStatus(body) ==
    IF ~body.parses THEN UnexpectedError
    ELSE LET result == body.json IN
         IF result.t # "dict" THEN UnexpectedError
         ELSE IF "choices" \notin DOMAIN result.fields THEN UnexpectedFormat
         ELSE LET choices == result.fields.choices IN
              IF choices.t # "list" THEN UnexpectedError
              ELSE IF Len(choices.items) > 0
                   THEN ExtractContent(choices.items[1])
                   ELSE UnexpectedFormat

(***************************************************************************)
(* The 400 branch: error_data = response.json();                           *)
(* error_message = error_data.get("error", {}).get("message", "Bad         *)
(* request"); credit or balance in error_message.lower() decides.          *)
(***************************************************************************)
DefaultErrorMessage == JMsg(<<Word("bad", TRUE), Word("request", FALSE)>>)

HandleBadRequestStatus(body) ==
    IF ~body.parses THEN UnexpectedError
    ELSE LET error_data == body.json IN
         IF error_data.t # "dict" THEN UnexpectedError
         ELSE LET error == IF "error" \in DOMAIN error_data.fields
                           THEN error_data.fields.error
                           ELSE JDict([k \in {} |-> JNull]) IN
              IF error.t # "dict" THEN UnexpectedError
              ELSE LET error_message == IF "message" \in DOMAIN error.fields
                                        THEN error.fields.message
                                        ELSE DefaultErrorMessage IN
                   IF error_message.t # "str" THEN UnexpectedError
                   ELSE IF \/ Contains(lower(error_message.words), "credit")
                           \/ Contains(lower(error_message.words), "balance")
                        THEN InsufficientCredits
                        ELSE BadRequest

(***************************************************************************)
(* What requests.post does: it returns a response or raises.               *)
(***************************************************************************)
Response(status_code, body) ==
    [kind |-> "response", status_code |-> status_code, body |-> body]
Raises(exception) == [kind |-> exception]

ClassifyStatus(status_code, body) ==
    IF status_code = 200 THEN HandleSuccessStatus(body)
    ELSE IF status_code = 400 THEN HandleBadRequestStatus(body)
    ELSE IF status_code = 401 THEN AuthenticationError
    ELSE IF status_code = 402 THEN PaymentRequired
    ELSE IF status_code = 429 THEN RateLimit
    ELSE IF status_code >= 500 THEN ServerError
    ELSE UnknownError(status_code)

ClassifyResult(remote) ==
    IF remote.kind = "response" THEN ClassifyStatus(remote.status_code, remote.body)
    ELSE IF remote.kind = "Timeout" THEN TimeoutError
    ELSE IF remote.kind = "ConnectionError" THEN ConnectionError
    ELSE UnexpectedError

(***************************************************************************)
(* The prompt: the system message, the last five exchanges as user and     *)
(* assistant messages, then the current message (text and image parts when *)
(* image_url is truthy).                                                   *)
(***************************************************************************)
system_message ==
    [role |-> "system", content |-> Lit("You are AgriBot, a friendly and knowledgeable agricultural assistant. ...")]

\* LastTurns with the slice starting one exchange early.
LastTurns_OffByOne(history) ==
    SubSeq(history,
           IF Len(history) > CONTEXT_TURNS THEN Len(history) - CONTEXT_TURNS ELSE 1,
           Len(history))

LastTurns(history) ==
    SubSeq(history,
           IF Len(history) > CONTEXT_TURNS THEN Len(history) - CONTEXT_TURNS + 1 ELSE 1,
           Len(history))

RECURSIVE HistoryMessages(_)
HistoryMessages(exchanges) ==
    IF exchanges = <<>> THEN <<>>
    ELSE <<[role |-> "user", content |-> Head(exchanges).user],
           [role |-> "assistant", content |-> Head(exchanges).bot]>>
         \o HistoryMessages(Tail(exchanges))

CurrentContent(user_message, image_url) ==
    IF Truthy(image_url)
    THEN [parts |-> <<[type |-> "text", text |-> user_message],
                      [type |-> "image_url", url |-> image_url]>>]
    ELSE user_message

BuildMessages(history, user_message, image_url) ==
    HistoryMessages(LastTurns(history))
    \o <<[role |-> "user", content |-> CurrentContent(user_message, image_url)]>>

Payload(history, user_message, image_url) ==
    [model |-> "anthropic/claude-sonnet-4.5",
     messages |-> <<system_message>> \o BuildMessages(history, user_message, image_url),
     max_tokens |-> 1000,
     temperature |-> "0.3"]

\* The requests get_openrouter_response posts: none without a credential.
posted_payloads(user_message, image_url, history, key) ==
    IF ~Truthy(key) THEN <<>>
    ELSE <<Payload(history, user_message, image_url)>>

\* get_openrouter_response without the test of the credential.
get_openrouter_response_NoKeyCheck(user_message, image_url, history, key, remote) ==
    ClassifyResult(remote)

get_openrouter_response(user_message, image_url, history, key, remote) ==
    IF ~Truthy(key) THEN ConfigurationError
    ELSE ClassifyResult(remote)

(***************************************************************************)
(* The chat handler, piece by piece.                                       *)
(***************************************************************************)
HTTPException(status_code, detail) ==
    [raised |-> TRUE, status_code |-> status_code, detail |-> detail]
NoException == [raised |-> FALSE]

http_exception_handler(exc) ==
    [detail |-> exc.detail, status_code |-> exc.status_code]

general_exception_handler(exc) ==
    [detail |-> "An internal server error occurred. Please try again later.",
     status_code |-> 500]

ChatResponse(reply, error, error_type) ==
    [reply |-> reply, error |-> error, error_type |-> error_type]

\* Validate with the length test off by one.
Validate_OffByOne(user_text) ==
    IF StrLen(user_text) = 0
    THEN HTTPException(400, "Empty message received")
    ELSE IF StrLen(user_text) >= MAX_QUERY_LEN
    THEN HTTPException(400, "Message too long. Please keep messages under 2000 characters.")
    ELSE NoException

Validate(user_text) ==
    IF StrLen(user_text) = 0
    THEN HTTPException(400, "Empty message received")
    ELSE IF StrLen(user_text) > MAX_QUERY_LEN
    THEN HTTPException(400, "Message too long. Please keep messages under 2000 characters.")
    ELSE NoException

NormalizeText(user_text, user_lang, outcome) ==
    IF user_lang # "en" THEN translate_text(user_text, user_lang, "en", outcome)
    ELSE user_text

\* HistoryEntry saving the text as the user sent it.
HistoryEntry_Original(translated_text, user_text, reply_text) ==
    [user |-> user_text, bot |-> reply_text]

HistoryEntry(translated_text, user_text, reply_text) ==
    [user |-> translated_text, bot |-> reply_text]

\* LimitHistory with pop() for pop(0).
LimitHistory_PopNewest(history) ==
    IF Len(history) > MAX_HISTORY THEN SubSeq(history, 1, Len(history) - 1) ELSE history

LimitHistory(history) ==
    IF Len(history) > MAX_HISTORY THEN Tail(history) ELSE history

\* SaveToHistory without the test of is_error.
SaveToHistory_Always(history, entry, is_error) ==
    LimitHistory(Append(history, entry))

SaveToHistory(history, entry, is_error) ==
    IF ~is_error THEN LimitHistory(Append(history, entry)) ELSE history

FinalReply(reply_text, user_lang, is_error, outcome) ==
    IF user_lang # "en" /\ ~is_error
    THEN translate_text(reply_text, "en", user_lang, outcome)
    ELSE reply_text

\* The external calls chat makes, in order.
ChatCalls(req, user_lang, translated_text, is_error, history, key) ==
    <<[fn |-> "detect"]>>
    \o (IF user_lang # "en" THEN translate_calls(user_lang, "en") ELSE <<>>)
    \o (LET posted == posted_payloads(translated_text, req.image_url, history, key)
        IN  [i \in 1..Len(posted) |-> [fn |-> "requests.post", payload |-> posted[i]]])
    \o (IF user_lang # "en" /\ ~is_error THEN translate_calls("en", user_lang) ELSE <<>>)

(***************************************************************************)
(* Sampled inputs and answers of the collaborators.                        *)
(***************************************************************************)
QuerySamples ==
    {MkStr(0, "q", "en", 0, 0),
     MkStr(1, "q", "en", 0, 1),
     MkStr(1, "q", "en", 1, 1),
     MkStr(0, "q", "hi", MAX_QUERY_LEN, 1),
     MkStr(0, "q", "en", MAX_QUERY_LEN + 1, 0)}

ImageSamples == {NoneVal, "", "https://example.org/leaf.jpg"}

ChatRequests == [query : QuerySamples, image_url : ImageSamples]

ReplyContent == MkStr(1, "advice", "en", 6, 1)

Choices(choices) == Body(JDict([choices |-> choices]))
Message(message) == Choices(JList(<<JDict([message |-> message])>>))
ErrorMessage(words) == Body(JDict([error |-> JDict([message |-> JMsg(words)])]))

SuccessBodies ==
    {Message(JDict([content |-> JText(ReplyContent)])),
     Message(JDict([content |-> JNull])),
     Message(JDict([role |-> JNull])),
     Choices(JList(<<JDict([finish_reason |-> JNull])>>)),
     Choices(JList(<<>>)),
     Choices(JNull),
     Body(JDict([id |-> JNull])),
     NotJson}

BadRequestBodies ==
    {ErrorMessage(<<Word("insufficient", TRUE), Word("credit", FALSE)>>),
     ErrorMessage(<<Word("credit", TRUE)>>),
     ErrorMessage(<<Word("balance", TRUE)>>),
     ErrorMessage(<<Word("invalid", FALSE), Word("model", FALSE)>>),
     Body(JDict([error |-> JDict([code |-> JNull])])),
     Body(JDict([detail |-> JNull])),
     Body(JDict([error |-> JMsg(<<Word("credit", FALSE)>>)])),
     Body(JDict([error |-> JDict([message |-> JNull])])),
     NotJson}

OtherStatuses == {201, 302, 401, 402, 404, 429, 500, 503}

RemoteResults ==
    {Response(200, b) : b \in SuccessBodies}
    \cup {Response(400, b) : b \in BadRequestBodies}
    \cup {Response(c, NotJson) : c \in OtherStatuses}
    \cup {Raises("Timeout"), Raises("ConnectionError"), Raises("Exception")}

KeySamples == {NoneVal, "", "sk-or-v1-key"}

\* The exchanges of n earlier successful English chats, the i-th with a
\* question of i characters.
Filler(n) ==
    [i \in 1..n |-> [user |-> MkStr(0, "f", "en", i, 0),
                     bot |-> MkStr(0, "a", "en", i, 0)]]

InitialSizes == {0, CONTEXT_TURNS, MAX_HISTORY - 1, MAX_HISTORY}

(***************************************************************************)
(* The state after start-up, or after some earlier successful chats.       *)
(***************************************************************************)
Init ==
    /\ OPENROUTER_API_KEY \in KeySamples
    /\ conversation_history \in {Filler(n) : n \in InitialSizes}
    /\ n_chats = 0
    /\ last = [op |-> "none"]
    /\ client = [op |-> "none"]
    /\ chat_pc = "idle"
    /\ chat_loc = [op |-> "none"]
    /\ hist_pc = "idle"
    /\ hist_loc = [op |-> "none"]

Idle == chat_pc = "idle" /\ hist_pc = "idle"

(***************************************************************************)
(* POST /api/chat, handled from its first line to its return.              *)
(***************************************************************************)
ChatRejected(req, user_text, exc) ==
    /\ last' = [op |-> "chat", req |-> req, user_text |-> user_text,
                exc |-> exc, calls |-> <<>>,
                response |-> http_exception_handler(exc)]
    /\ UNCHANGED conversation_history

ChatHandled(req, user_text, user_lang, translated_text, completion, reply) ==
    /\ conversation_history' =
           SaveToHistory(conversation_history,
                         HistoryEntry(translated_text, user_text, completion.text),
                         completion.is_error)
    /\ last' = [op |-> "chat", req |-> req, user_text |-> user_text,
                exc |-> NoException,
                user_lang |-> user_lang,
                translated_text |-> translated_text,
                completion |-> completion,
                calls |-> ChatCalls(req, user_lang, translated_text,
                                    completion.is_error, conversation_history,
                                    OPENROUTER_API_KEY),
                response |-> ChatResponse(reply, completion.is_error,
                                          completion.error_type)]

chat ==
    /\ Idle
    /\ n_chats < MaxChats
    /\ n_chats' = n_chats + 1
    /\ \E req \in ChatRequests :
          LET user_text == strip(req.query)
              exc == Validate(user_text)
          IN  IF exc.raised
              THEN ChatRejected(req, user_text, exc)
              ELSE \E user_lang \in
                        {detect_language(user_text, d) : d \in DetectOutcomes} :
                   \E translated_text \in
                        {NormalizeText(user_text, user_lang, o) : o \in TranslateOutcomes} :
                   \E completion \in
                        {get_openrouter_response(translated_text, req.image_url,
                             conversation_history, OPENROUTER_API_KEY, r) :
                         r \in RemoteResults} :
                   \E reply \in
                        {FinalReply(completion.text, user_lang, completion.is_error, o) :
                         o \in TranslateOutcomes} :
                      ChatHandled(req, user_text, user_lang, translated_text,
                                  completion, reply)
    /\ UNCHANGED <<OPENROUTER_API_KEY, client, chat_pc, chat_loc, hist_pc, hist_loc>>

(***************************************************************************)
(* POST /api/clear-history and GET /api/history.                           *)
(***************************************************************************)
HistoryResponse(history) == [history |-> history, count |-> Len(history)]

\* clear_history without `global`: the assignment binds a local name.
clear_history_NoGlobal ==
    /\ Idle
    /\ last' = [op |-> "clear_history",
                response |-> [message |-> "Conversation history cleared successfully",
                              count |-> 0]]
    /\ UNCHANGED <<OPENROUTER_API_KEY, conversation_history, n_chats, client,
                   chat_pc, chat_loc, hist_pc, hist_loc>>

clear_history ==
    /\ Idle
    /\ conversation_history' = <<>>
    /\ last' = [op |-> "clear_history",
                response |-> [message |-> "Conversation history cleared successfully",
                              count |-> 0]]
    /\ UNCHANGED <<OPENROUTER_API_KEY, n_chats, client,
                   chat_pc, chat_loc, hist_pc, hist_loc>>

get_history ==
    /\ Idle
    /\ last' = [op |-> "get_history", after |-> last.op,
                response |-> HistoryResponse(conversation_history)]
    /\ UNCHANGED <<OPENROUTER_API_KEY, conversation_history, n_chats, client,
                   chat_pc, chat_loc, hist_pc, hist_loc>>

Next == chat \/ clear_history \/ get_history

Spec == Init /\ [][Next]_vars

(***************************************************************************)
(* The completion client on its own: Init draws a call's arguments and the *)
(* remote result, complete applies get_openrouter_response to them.        *)
(***************************************************************************)
MessageSamples == {MkStr(0, "q", "en", 1, 0)}

InitClient ==
    /\ OPENROUTER_API_KEY \in KeySamples
    /\ conversation_history \in {Filler(n) : n \in InitialSizes}
    /\ n_chats = 0
    /\ last = [op |-> "none"]
    /\ client \in [op : {"call"}, user_message : MessageSamples,
                   image_url : ImageSamples, remote : RemoteResults]
    /\ chat_pc = "idle"
    /\ chat_loc = [op |-> "none"]
    /\ hist_pc = "idle"
    /\ hist_loc = [op |-> "none"]

complete ==
    /\ client.op = "call"
    /\ client' = [op |-> "returned",
                  user_message |-> client.user_message,
                  image_url |-> client.image_url,
                  remote |-> client.remote,
                  outcome |-> get_openrouter_response(client.user_message,
                                  client.image_url, conversation_history,
                                  OPENROUTER_API_KEY, client.remote),
                  posted |-> posted_payloads(client.user_message, client.image_url,
                                  conversation_history, OPENROUTER_API_KEY)]
    /\ UNCHANGED <<OPENROUTER_API_KEY, conversation_history, n_chats, last,
                   chat_pc, chat_loc, hist_pc, hist_loc>>

NextClient == complete

SpecClient == InitClient /\ [][NextClient]_vars

(***************************************************************************)
(* The handlers as the server runs them together.  chat is a coroutine     *)
(* with no await in its body, so the event loop runs one chat at a time;   *)
(* clear_history and get_history are plain functions, which the framework  *)
(* runs in worker threads, so their steps fall between any two steps of a  *)
(* chat.  Nothing in the source locks conversation_history.                *)
(***************************************************************************)
InitConcurrent ==
    /\ OPENROUTER_API_KEY \in KeySamples
    /\ conversation_history \in {Filler(n) : n \in {MAX_HISTORY - 1, MAX_HISTORY}}
    /\ n_chats = 0
    /\ last = [op |-> "none"]
    /\ client = [op |-> "none"]
    /\ chat_pc = "idle"
    /\ chat_loc = [op |-> "none"]
    /\ hist_pc = "idle"
    /\ hist_loc = [op |-> "none"]

\* chat from its first line to the return of get_openrouter_response, which
\* has read conversation_history[-5:] on the way.
chat_begin ==
    /\ chat_pc = "idle"
    /\ n_chats < MaxConcurrentChats
    /\ n_chats' = n_chats + 1
    /\ \E req \in ChatRequests :
          LET user_text == strip(req.query)
              exc == Validate(user_text)
          IN  IF exc.raised
              THEN /\ last' = [op |-> "chat", req |-> req, user_text |-> user_text,
                               exc |-> exc, calls |-> <<>>,
                               response |-> http_exception_handler(exc)]
                   /\ UNCHANGED <<chat_pc, chat_loc>>
              ELSE \E user_lang \in
                        {detect_language(user_text, d) : d \in DetectOutcomes} :
                   \E translated_text \in
                        {NormalizeText(user_text, user_lang, o) : o \in TranslateOutcomes} :
                   \E completion \in
                        {get_openrouter_response(translated_text, req.image_url,
                             conversation_history, OPENROUTER_API_KEY, r) :
                         r \in RemoteResults} :
                      /\ chat_loc' = [op |-> "chat", req |-> req,
                                      user_text |-> user_text,
                                      user_lang |-> user_lang,
                                      translated_text |-> translated_text,
                                      completion |-> completion]
                      /\ chat_pc' = IF completion.is_error THEN "return" ELSE "append"
                      /\ UNCHANGED last
    /\ UNCHANGED <<OPENROUTER_API_KEY, conversation_history, client, hist_pc, hist_loc>>

\* conversation_history.append({...})
chat_append ==
    /\ chat_pc = "append"
    /\ conversation_history' =
           Append(conversation_history,
                  HistoryEntry(chat_loc.translated_text, chat_loc.user_text,
                               chat_loc.completion.text))
    /\ chat_pc' = "limit"
    /\ UNCHANGED <<OPENROUTER_API_KEY, n_chats, last, client, chat_loc, hist_pc, hist_loc>>

\* if len(conversation_history) > 100:
chat_limit ==
    /\ chat_pc = "limit"
    /\ chat_pc' = IF Len(conversation_history) > MAX_HISTORY THEN "pop" ELSE "return"
    /\ UNCHANGED <<OPENROUTER_API_KEY, conversation_history, n_chats, last, client,
                   chat_loc, hist_pc, hist_loc>>

\* conversation_history.pop(0): IndexError on a list emptied meanwhile, which
\* the catch-all handler answers.
chat_pop ==
    /\ chat_pc = "pop"
    /\ IF conversation_history = <<>>
       THEN /\ last' = [op |-> "chat", req |-> chat_loc.req,
                        user_text |-> chat_loc.user_text,
                        exc |-> [raised |-> TRUE, type |-> "IndexError"],
                        response |-> general_exception_handler("IndexError")]
            /\ chat_pc' = "idle"
            /\ chat_loc' = [op |-> "none"]
            /\ UNCHANGED conversation_history
       ELSE /\ conversation_history' = Tail(conversation_history)
            /\ chat_pc' = "return"
            /\ UNCHANGED <<last, chat_loc>>
    /\ UNCHANGED <<OPENROUTER_API_KEY, n_chats, client, hist_pc, hist_loc>>

\* The translation back and the return of the ChatResponse.
chat_return ==
    /\ chat_pc = "return"
    /\ \E reply \in {FinalReply(chat_loc.completion.text, chat_loc.user_lang,
                                chat_loc.completion.is_error, o) :
                     o \in TranslateOutcomes} :
          last' = [op |-> "chat", req |-> chat_loc.req,
                   user_text |-> chat_loc.user_text,
                   exc |-> NoException,
                   user_lang |-> chat_loc.user_lang,
                   translated_text |-> chat_loc.translated_text,
                   completion |-> chat_loc.completion,
                   response |-> ChatResponse(reply, chat_loc.completion.is_error,
                                             chat_loc.completion.error_type)]
    /\ chat_pc' = "idle"
    /\ chat_loc' = [op |-> "none"]
    /\ UNCHANGED <<OPENROUTER_API_KEY, conversation_history, n_chats, client,
                   hist_pc, hist_loc>>

\* conversation_history = []: the name is bound to a new list; a get_history
\* that already holds the old list keeps it as it was.
clear_history_thread ==
    /\ conversation_history' = <<>>
    /\ hist_loc' = IF hist_pc # "idle" /\ hist_loc.live
                   THEN [hist_loc EXCEPT !.live = FALSE,
                                         !.history = conversation_history]
                   ELSE hist_loc
    /\ last' = [op |-> "clear_history",
                response |-> [message |-> "Conversation history cleared successfully",
                              count |-> 0]]
    /\ UNCHANGED <<OPENROUTER_API_KEY, n_chats, client, chat_pc, chat_loc, hist_pc>>

\* "history": conversation_history  -- the list itself, not a copy
get_history_read ==
    /\ hist_pc = "idle"
    /\ hist_loc' = [op |-> "get_history", live |-> TRUE, history |-> <<>>, count |-> 0]
    /\ hist_pc' = "count"
    /\ UNCHANGED <<OPENROUTER_API_KEY, conversation_history, n_chats, last, client,
                   chat_pc, chat_loc>>

\* "count": len(conversation_history)
get_history_count ==
    /\ hist_pc = "count"
    /\ hist_loc' = [hist_loc EXCEPT !.count = Len(conversation_history)]
    /\ hist_pc' = "return"
    /\ UNCHANGED <<OPENROUTER_API_KEY, conversation_history, n_chats, last, client,
                   chat_pc, chat_loc>>

\* The response is encoded: the list is read as it is by then.
get_history_return ==
    /\ hist_pc = "return"
    /\ last' = [op |-> "get_history", after |-> last.op,
                response |-> [history |-> IF hist_loc.live THEN conversation_history
                                          ELSE hist_loc.history,
                              count |-> hist_loc.count]]
    /\ hist_pc' = "idle"
    /\ hist_loc' = [op |-> "none"]
    /\ UNCHANGED <<OPENROUTER_API_KEY, conversation_history, n_chats, client,
                   chat_pc, chat_loc>>

NextConcurrent ==
    \/ chat_begin \/ chat_append \/ chat_limit \/ chat_pop \/ chat_return
    \/ clear_history_thread
    \/ get_history_read \/ get_history_count \/ get_history_return

SpecConcurrent == InitConcurrent /\ [][NextConcurrent]_vars

(***************************************************************************)
(* Vocabulary of the properties.                                           *)
(***************************************************************************)
\* A step that handles a chat request from its first line to its return.
ChatStep == n_chats' = n_chats + 1 /\ last'.op = "chat"

\* The last request was a chat that passed validation.
ChatReturned == last.op = "chat" /\ ~last.exc.raised

\* The last request was a chat whose completion succeeded.
ChatSucceeded == ChatReturned /\ ~last.completion.is_error

\* The payloads the last chat posted to the remote model.
PostedBy(request) ==
    SelectSeq(request.calls, LAMBDA c : c.fn = "requests.post")

NewestTurn == conversation_history[Len(conversation_history)]

(***************************************************************************)
(* C1: the history never holds more than 100 turns; a successful chat on a *)
(* history of 100 turns drops exactly the oldest turn, keeps the other 99  *)
(* in their order and puts the new turn last (and on a shorter history it  *)
(* only appends).                                                          *)
(***************************************************************************)
C1_Eviction ==
    LET old == conversation_history
        new == conversation_history'
        turn == [user |-> last'.translated_text, bot |-> last'.completion.text]
    IN  (ChatStep /\ ~last'.exc.raised /\ ~last'.completion.is_error) =>
           IF Len(old) = MAX_HISTORY
           THEN /\ Len(new) = MAX_HISTORY
                /\ \A i \in 1..(MAX_HISTORY - 1) : new[i] = old[i + 1]
                /\ new[MAX_HISTORY] = turn
           ELSE new = Append(old, turn)

C1_BoundedHistory ==
    /\ [](Len(conversation_history) <= MAX_HISTORY)
    /\ [][C1_Eviction]_vars

C1_Witness ==
    /\ ChatSucceeded
    /\ Len(conversation_history) = MAX_HISTORY
    /\ conversation_history[1] = Filler(MAX_HISTORY)[2]
    /\ NewestTurn.user.body # "f"

(***************************************************************************)
(* C2: a chat whose completion outcome is an error, of whatever kind,      *)
(* leaves the history exactly as it was.                                   *)
(***************************************************************************)
C2_ErrorKeepsHistory ==
    [][(ChatStep /\ ~last'.exc.raised /\ last'.completion.is_error)
         => conversation_history' = conversation_history]_vars

C2_Witness ==
    /\ ChatReturned
    /\ last.completion.is_error
    /\ last.completion.error_type = "rate_limit"
    /\ Len(conversation_history) = MAX_HISTORY

MentionsCreditOrBalance(body) ==
    /\ body.parses
    /\ body.json.t = "dict"
    /\ "error" \in DOMAIN body.json.fields
    /\ body.json.fields.error.t = "dict"
    /\ "message" \in DOMAIN body.json.fields.error.fields
    /\ body.json.fields.error.fields.message.t = "str"
    /\ \E i \in 1..Len(body.json.fields.error.fields.message.words) :
          body.json.fields.error.fields.message.words[i].w \in {"credit", "balance"}

TableErrorType(remote) ==
    IF remote.kind = "Timeout" THEN "timeout"
    ELSE IF remote.kind = "ConnectionError" THEN "connection_error"
    ELSE IF remote.kind # "response" THEN "unexpected_error"
    ELSE IF remote.status_code = 400
         THEN IF MentionsCreditOrBalance(remote.body)
              THEN "insufficient_credits" ELSE "bad_request"
    ELSE IF remote.status_code = 401 THEN "authentication_error"
    ELSE IF remote.status_code = 402 THEN "payment_required"
    ELSE IF remote.status_code = 429 THEN "rate_limit"
    ELSE IF remote.status_code >= 500 THEN "server_error"
    ELSE "unknown_error"

C4_ClassificationTable ==
    (/\ client.op = "returned"
     /\ Truthy(OPENROUTER_API_KEY)
     /\ ~(client.remote.kind = "response" /\ client.remote.status_code = 200)) =>
        /\ client.outcome.is_error
        /\ client.outcome.error_type = TableErrorType(client.remote)

(***************************************************************************)
(* C5 as stated: a 200 response whose body has a non-empty choices list    *)
(* whose first element has message.content gives the trimmed reply; a 200  *)
(* response with any of these missing gives unexpected_format.             *)
(***************************************************************************)
HasExpectedFields(body) ==
    /\ body.parses
    /\ body.json.t = "dict"
    /\ "choices" \in DOMAIN body.json.fields
    /\ body.json.fields.choices.t = "list"
    /\ Len(body.json.fields.choices.items) > 0
    /\ LET choice == body.json.fields.choices.items[1] IN
          /\ choice.t = "dict"
          /\ "message" \in DOMAIN choice.fields
          /\ choice.fields.message.t = "dict"
          /\ "content" \in DOMAIN choice.fields.message.fields
          /\ choice.fields.message.fields.content.t = "str"

C5_SuccessOrUnexpectedFormat ==
    (/\ client.op = "returned"
     /\ Truthy(OPENROUTER_API_KEY)
     /\ client.remote.kind = "response"
     /\ client.remote.status_code = 200) =>
        IF HasExpectedFields(client.remote.body)
        THEN /\ ~client.outcome.is_error
             /\ client.outcome.text.lead = 0
             /\ client.outcome.text.trail = 0
        ELSE /\ client.outcome.is_error
             /\ client.outcome.error_type = "unexpected_format"

(***************************************************************************)
(* C6: a chat is rejected with status 400 exactly when its query, trimmed, *)
(* is empty ("Empty message received") or longer than 2000 characters      *)
(* ("Message too long ..."); a rejected chat calls neither the detector,   *)
(* nor the translator, nor the remote model, and leaves the history as it  *)
(* was.                                                                    *)
(***************************************************************************)
C6_Rejection ==
    last.op = "chat" =>
        LET trimmed == last.req.query.n IN
        /\ last.exc.raised <=> (trimmed = 0 \/ trimmed > MAX_QUERY_LEN)
        /\ trimmed = 0 =>
              last.response = [detail |-> "Empty message received", status_code |-> 400]
        /\ trimmed > MAX_QUERY_LEN =>
              last.response =
                  [detail |-> "Message too long. Please keep messages under 2000 characters.",
                   status_code |-> 400]
        /\ last.exc.raised => last.calls = <<>>
        /\ ~last.exc.raised => "reply" \in DOMAIN last.response

C6_ValidationRejects ==
    /\ []C6_Rejection
    /\ [][(ChatStep /\ last'.exc.raised)
            => conversation_history' = conversation_history]_vars

C6_Witness ==
    /\ last.op = "chat"
    /\ last.exc.raised
    /\ last.req.query.n = MAX_QUERY_LEN + 1
    /\ conversation_history # <<>>

(***************************************************************************)
(* C7: without a credential every valid chat returns normally with         *)
(* error = true, error_type = "configuration_error" and the fixed apology; *)
(* nothing is posted to the remote model and the history is left as it     *)
(* was.                                                                    *)
(***************************************************************************)
C7_Response ==
    (/\ last.op = "chat"
     /\ ~Truthy(OPENROUTER_API_KEY)
     /\ last.req.query.n \in 1..MAX_QUERY_LEN) =>
        /\ ~last.exc.raised
        /\ last.response =
              [reply |-> Lit("I apologize, but the AI service is currently unavailable. Please contact the administrator to configure the API key."),
               error |-> TRUE,
               error_type |-> "configuration_error"]
        /\ PostedBy(last) = <<>>

C7_NoCredential ==
    /\ []C7_Response
    /\ [][(ChatStep /\ ~Truthy(OPENROUTER_API_KEY))
            => conversation_history' = conversation_history]_vars

C7_Witness ==
    /\ ChatReturned
    /\ OPENROUTER_API_KEY = NoneVal
    /\ last.user_lang = "hi"
    /\ last.response.error_type = "configuration_error"
    /\ conversation_history # <<>>

(***************************************************************************)
(* C8: handled one after the other, clear_history empties the history and  *)
(* reports count 0, a get_history right after it returns an empty list and *)
(* count 0, and every get_history returns the stored turns in their order  *)
(* with count their number.                                                *)
(***************************************************************************)
C8_ClearAndHistory ==
    /\ last.op = "clear_history" =>
          /\ conversation_history = <<>>
          /\ last.response.count = 0
    /\ last.op = "get_history" =>
          /\ last.response.history = conversation_history
          /\ last.response.count = Len(last.response.history)
          /\ last.after = "clear_history" =>
                last.response = [history |-> <<>>, count |-> 0]

C8_Witness ==
    /\ last.op = "get_history"
    /\ last.after = "clear_history"
    /\ last.response.count = 0
    /\ n_chats > 0

(***************************************************************************)
(* C9 as stated, its second half: whatever the interleaving of the         *)
(* handlers, no history request observes more than 100 turns.              *)
(***************************************************************************)
C9_NeverObservedOverCap ==
    last.op = "get_history" => last.response.count <= MAX_HISTORY

(***************************************************************************)
(* C10: with a credential, what a chat posts is the system message, then   *)
(* the last min(5, n) turns of the history as it was before this chat,     *)
(* oldest first, each as a user and an assistant message, then the current *)
(* user message: text and image parts when an image URL was sent, the      *)
(* plain text otherwise.                                                   *)
(***************************************************************************)
C10_Prompt ==
    (ChatStep /\ ~last'.exc.raised /\ Truthy(OPENROUTER_API_KEY)) =>
        /\ Len(PostedBy(last')) = 1
        /\ LET messages == PostedBy(last')[1].payload.messages
               n == Len(conversation_history)
               m == IF n < CONTEXT_TURNS THEN n ELSE CONTEXT_TURNS
               text == last'.translated_text
               image_url == last'.req.image_url
           IN  /\ Len(messages) = 2 * m + 2
               /\ messages[1] = system_message
               /\ \A k \in 1..m :
                     /\ messages[2 * k] =
                           [role |-> "user",
                            content |-> conversation_history[n - m + k].user]
                     /\ messages[2 * k + 1] =
                           [role |-> "assistant",
                            content |-> conversation_history[n - m + k].bot]
               /\ messages[2 * m + 2].role = "user"
               /\ IF image_url \in {NoneVal, ""}
                  THEN messages[2 * m + 2].content = text
                  ELSE messages[2 * m + 2].content =
                          [parts |-> <<[type |-> "text", text |-> text],
                                       [type |-> "image_url", url |-> image_url]>>]

C10_PromptWindow == [][C10_Prompt]_vars

C10_Witness ==
    /\ ChatReturned
    /\ Len(PostedBy(last)) = 1
    /\ LET messages == PostedBy(last)[1].payload.messages IN
          /\ Len(messages) = 2 * CONTEXT_TURNS + 2
          /\ messages[2 * CONTEXT_TURNS].content.body # "f"
          /\ "parts" \in DOMAIN messages[2 * CONTEXT_TURNS + 2].content

====
